---- MODULE Spec2Model ----
(***************************************************************************)
(* The rule-driven configuration containers of mailpile/config/base.py:   *)
(* ConfigDict and ConfigList (RuledContainer(dict) / RuledContainer(list)),*)
(* their rule installation, item reads and writes, walk, as_config and    *)
(* parse_config.  The semantics are those of CPython 3 (< 3.12, the last  *)
(* interpreters that still have ConfigParser.readfp): a slice assignment  *)
(* on a list subclass goes through the overridden __setitem__, a slice is *)
(* unhashable, and str and int do not compare.                            *)
(*                                                                         *)
(* Text is a sequence of one-character strings, so that lower(), split(), *)
(* int(s, 36), int(s) and str(n) are computed and not assumed.            *)
(***************************************************************************)
EXTENDS Integers, Sequences, FiniteSets, TLC

\* ------------------------------------------------------------------ bounds
\* Number of operations performed on the tree in one behaviour.
MaxOps == 2
\* The highest position a write is offered in an ordered collection.
MaxIndex == 10

\* ------------------------------------------------------------------- text
LowerCase == << "a","b","c","d","e","f","g","h","i","j","k","l","m",
                "n","o","p","q","r","s","t","u","v","w","x","y","z" >>
UpperCase == << "A","B","C","D","E","F","G","H","I","J","K","L","M",
                "N","O","P","Q","R","S","T","U","V","W","X","Y","Z" >>
DecDigits == << "0","1","2","3","4","5","6","7","8","9" >>
\* The digits of base 36, by value (index - 1).
Digits36 == DecDigits \o LowerCase

Range(s) == { s[i] : i \in DOMAIN s }

\* str.lower() on one character and on a text.
lower_char(c) ==
    IF c \in Range(UpperCase)
    THEN LowerCase[CHOOSE i \in DOMAIN UpperCase : UpperCase[i] = c]
    ELSE c
lower(s) == [ i \in DOMAIN s |-> lower_char(s[i]) ]
upper_char(c) ==
    IF c \in Range(LowerCase)
    THEN UpperCase[CHOOSE i \in DOMAIN LowerCase : LowerCase[i] = c]
    ELSE c

\* s.split(sep) for a one-character separator: the pieces between the
\* separators, an empty text giving one empty piece.
RECURSIVE split(_, _)
split(s, sep) ==
    IF \A i \in DOMAIN s : s[i] # sep
    THEN << s >>
    ELSE LET p == CHOOSE i \in DOMAIN s :
                     s[i] = sep /\ \A j \in 1..(i - 1) : s[j] # sep
         IN  << SubSeq(s, 1, p - 1) >> \o split(SubSeq(s, p + 1, Len(s)), sep)

\* ---------------------------------------------------------------- numbers
digit_value(c) == (CHOOSE i \in DOMAIN Digits36 : Digits36[i] = lower_char(c)) - 1

\* Whether int(s, base) accepts s: an optional sign, then one or more digits
\* of the base (letters in either case), single underscores allowed between
\* digits.
is_int(s, base) ==
    LET body == IF s # << >> /\ s[1] \in {"-", "+"} THEN Tail(s) ELSE s
    IN  /\ body # << >>
        /\ body[1] # "_" /\ body[Len(body)] # "_"
        /\ \A i \in DOMAIN body :
              \/ body[i] = "_" /\ body[i - 1] # "_"
              \/ /\ lower_char(body[i]) \in Range(Digits36)
                 /\ digit_value(body[i]) < base

RECURSIVE digits_value(_, _)
digits_value(s, base) ==
    IF s = << >> THEN 0
    ELSE IF s[Len(s)] = "_" THEN digits_value(SubSeq(s, 1, Len(s) - 1), base)
    ELSE digits_value(SubSeq(s, 1, Len(s) - 1), base) * base + digit_value(s[Len(s)])

\* int(s, base), for a text is_int accepts.
to_int(s, base) ==
    IF s[1] = "-" THEN 0 - digits_value(Tail(s), base)
    ELSE IF s[1] = "+" THEN digits_value(Tail(s), base)
    ELSE digits_value(s, base)

\* The digits of a natural number in a base, most significant first, drawn
\* from an alphabet ('0' for zero).
RECURSIVE digits_of(_, _, _)
digits_of(n, base, alphabet) ==
    IF n < base THEN << alphabet[n + 1] >>
    ELSE digits_of(n \div base, base, alphabet) \o << alphabet[(n % base) + 1] >>

\* str(n) of an integer.
int_str(n) == IF n < 0 THEN << "-" >> \o digits_of(0 - n, 10, DecDigits)
              ELSE digits_of(n, 10, DecDigits)

\* mailpile.util.b36: the base-36 text of a natural number, upper case (its
\* callers lower it).
b36(n) == LET up == [ i \in DOMAIN Digits36 |-> upper_char(Digits36[i]) ]
          IN  digits_of(n, 36, up)

\* ----------------------------------------------------------------- values
\* Python values, tagged by type.  A plain dict is an ordered sequence of
\* [k, v] entries (insertion order); a plain list a sequence.
NoneV == [t |-> "none"]
IntV(n) == [t |-> "int", v |-> n]
StrV(s) == [t |-> "str", v |-> s]
MapV(items) == [t |-> "map", v |-> items]
ListV(items) == [t |-> "list", v |-> items]
\* The key of a slice assignment self[start:] = ...
SliceV(start) == [t |-> "slice", start |-> start]

is_container(v) == v.t \in {"ConfigDict", "ConfigList"}
\* isinstance(v, dict), isinstance(v, (list, tuple))
is_dict(v) == v.t \in {"map", "ConfigDict"}
is_list(v) == v.t \in {"list", "ConfigList"}

\* Ordered dict storage: entries [k |-> key, v |-> value].
dict_keys(d) == [ i \in DOMAIN d |-> d[i].k ]
dict_has(d, k) == \E i \in DOMAIN d : d[i].k = k
dict_get(d, k) == d[CHOOSE i \in DOMAIN d : d[i].k = k].v
dict_set(d, k, v) ==
    IF dict_has(d, k)
    THEN [ i \in DOMAIN d |-> IF d[i].k = k THEN [k |-> k, v |-> v] ELSE d[i] ]
    ELSE Append(d, [k |-> k, v |-> v])
dict_del(d, k) ==
    LET p == CHOOSE i \in DOMAIN d : d[i].k = k
    IN  SubSeq(d, 1, p - 1) \o SubSeq(d, p + 1, Len(d))

\* The entries of a plain dict or of a ConfigDict, in iteration order.
entries_of(v) == IF v.t = "map" THEN v.v ELSE v.data

\* ---------------------------------------------------------------- checkers
\* RULE_CHECKER of a rule: True, False, a tuple of legal values, a coercion
\* (int, str, validators.IgnoreCheck), a dict of nested rules, or a class
\* made by _MakeCheck.
CTrue == [t |-> "True"]
CFalse == [t |-> "False"]
CEnum(vals) == [t |-> "enum", vals |-> vals]
CType(fn) == [t |-> "type", fn |-> fn]
CRules(rules) == [t |-> "rules", rules |-> rules]

\* _MakeCheck(pcls, name, comment, rules, write_watcher): a subclass of pcls
\* carrying _NAME, _RULES, _COMMENT and _WWATCHER.
_MakeCheck(pcls, name, comment, rules, write_watcher) ==
    [t |-> "Checker", pcls |-> pcls, NAME |-> name, RULES |-> rules,
     COMMENT |-> comment, WWATCHER |-> write_watcher]

\* ConfigRule(*args), PublicConfigRule, KeyConfigRule, CriticalConfigRule: a
\* rule is [comment, checker, default] with its access tags in _types.
ConfigRule(comment, checker, default) ==
    [comment |-> comment, checker |-> checker, default |-> default, types |-> {}]
PublicConfigRule(comment, checker, default) ==
    [ConfigRule(comment, checker, default) EXCEPT !.types = {"public"}]
KeyConfigRule(comment, checker, default) ==
    [ConfigRule(comment, checker, default) EXCEPT !.types = {"key"}]
CriticalConfigRule(comment, checker, default) ==
    [ConfigRule(comment, checker, default) EXCEPT !.types = {"critical"}]

\* A rule dict as written by the caller: a sequence of [k, v] entries.
RuleDict(entries) == [t |-> "ruledict", v |-> entries]

\* ------------------------------------------------------------------ schema
\* Names used by the schema below.
ANY == << "_", "a", "n", "y" >>
K_config == << "c", "o", "n", "f", "i", "g" >>
K_pot == << "p", "o", "t" >>
K_liq == << "l", "i", "q" >>
K_h2o == << "h", "2", "o" >>
K_vod == << "v", "o", "d" >>
K_tags == << "t", "a", "g", "s" >>
K_recs == << "r", "e", "c", "s" >>
K_col == << "c", "o", "l" >>
K_nums == << "n", "u", "m", "s" >>
K_key == << "k", "e", "y" >>
K_old == << "o", "l", "d" >>
K_ign == << "i", "g", "n" >>
K_c == << "c" >>
K_x == << "x" >>
V_red == << "r", "e", "d" >>
V_blue == << "b", "l", "u", "e" >>

\* The rules the root is built from, after the pattern of the ConfigDict
\* docstring: scalars with defaults, a locked sub-dict, a list and a keyed
\* collection of records (whose other keys an '_any' rule with a default
\* covers), an enumerated list, a list of ints, a key-tagged scalar, an
\* ignored (deprecated) scalar and a list of ignored values.
CONFIG_RULES ==
    << [k |-> K_pot, v |-> ConfigRule(StrV(<<"P">>), CType("int"), IntV(0))],
       [k |-> K_liq,
        v |-> CriticalConfigRule(StrV(<<"L">>), CFalse, RuleDict(
                << [k |-> K_h2o, v |-> ConfigRule(StrV(<<"W">>), CType("int"), IntV(0))],
                   [k |-> K_vod, v |-> PublicConfigRule(StrV(<<"V">>), CType("int"), IntV(12))] >>))],
       [k |-> K_tags,
        v |-> ConfigRule(StrV(<<"T">>),
                CRules(<< [k |-> K_c, v |-> ConfigRule(StrV(<<"C">>), CType("int"), IntV(0))],
                          [k |-> K_x, v |-> ConfigRule(StrV(<<"X">>), CType("str"), StrV(<< >>))] >>),
                ListV(<< >>))],
       [k |-> K_recs,
        v |-> ConfigRule(StrV(<<"R">>),
                CRules(<< [k |-> K_c, v |-> ConfigRule(StrV(<<"C">>), CType("int"), IntV(0))],
                          [k |-> ANY, v |-> ConfigRule(StrV(<<"A">>), CType("int"), IntV(7))] >>),
                MapV(<< >>))],
       [k |-> K_col,
        v |-> ConfigRule(StrV(<<"K">>), CEnum(<< StrV(V_red), StrV(V_blue) >>), ListV(<< >>))],
       [k |-> K_nums, v |-> PublicConfigRule(StrV(<<"I">>), CType("int"), ListV(<< >>))],
       [k |-> K_key, v |-> KeyConfigRule(StrV(<<"S">>), CType("str"), StrV(<<"x">>))],
       [k |-> K_old, v |-> ConfigRule(StrV(<<"O">>), CType("IgnoreCheck"), NoneV)],
       [k |-> K_ign, v |-> ConfigRule(StrV(<<"G">>), CType("IgnoreCheck"), ListV(<< >>))] >>

\* --------------------------------------------------------------- containers
\* A ConfigDict or ConfigList: t is the class, data the underlying dict (an
\* ordered sequence of entries) or list, rules the installed rules by key,
\* ww the object the default write watcher is bound to (by name).
new_container(pcls, name, comment, write_watcher) ==
    [t |-> pcls, name |-> name, key |-> name, comment |-> comment,
     ww |-> write_watcher, changed |-> FALSE, rules |-> << >>, data |-> << >>]

rules_set(rules, key, rule) ==
    [ x \in (DOMAIN rules) \cup {key} |-> IF x = key THEN rule ELSE rules[x] ]

\* The outcome of a call: the receiver after it, the exception that escaped
\* ("" for none), the value returned, and the owners whose write watcher
\* was called.
Ok(self, ret, ww) == [self |-> self, err |-> "", ret |-> ret, ww |-> ww]
Raise(self, err, ww) == [self |-> self, err |-> err, ret |-> NoneV, ww |-> ww]

\* '%s' % key, for a key that is a str or an int.
fmt(key) == IF key.t = "int" THEN int_str(key.v) ELSE key.v
\* '%s/%s' % (name, key)
path_join(name, key) == name \o << "/" >> \o key

\* A __fixkey__ that reads the text of a position as a decimal number: what
\* C9_Base36Addressing tells from the one below.
fixkey_decimal(self, key) ==
    IF self.t = "ConfigList"
    THEN IF key.t = "str" /\ is_int(key.v, 10)
         THEN IntV(to_int(key.v, 10))
         ELSE key
    ELSE StrV(lower(key.v))

\* __fixkey__: a ConfigDict lowers the key; a ConfigList turns a base-36
\* text into the position and leaves anything else alone.
fixkey(self, key) ==
    IF self.t = "ConfigList"
    THEN IF key.t = "str" /\ is_int(key.v, 36)
         THEN IntV(to_int(key.v, 36))
         ELSE key
    ELSE StrV(lower(key.v))

\* key.lower() of a ConfigDict exists for a str only.
fixkey_fails(self, key) == self.t = "ConfigDict" /\ key.t # "str"

\* get_rule: the rule of the fixed key, else the '_any' rule, else
\* InvalidKeyError; a checker that is a dict of rules becomes a class made
\* by _MakeCheck, named after this container and the key.
get_rule(self, key) ==
    LET k == fixkey(self, key)
        found == k.t = "str" /\ k.v \in DOMAIN self.rules
    IN  IF k.t = "slice"
        THEN [err |-> "TypeError", rule |-> NoneV]
        ELSE IF ~found /\ ANY \notin DOMAIN self.rules
        THEN [err |-> "InvalidKeyError", rule |-> NoneV]
        ELSE LET rule == IF found THEN self.rules[k.v] ELSE self.rules[ANY]
             IN  IF rule.checker.t = "rules"
                 THEN [err |-> "",
                       rule |-> [rule EXCEPT !.checker =
                                   _MakeCheck("ConfigDict", path_join(self.name, fmt(k)),
                                              rule.comment, rule.checker.rules, self.ww)]]
                 ELSE [err |-> "", rule |-> rule]

\* list.__getitem__(i): positions from the end for a negative index.
list_index(data, i) ==
    IF i >= 0 /\ i < Len(data) THEN i + 1
    ELSE IF i < 0 /\ 0 - i <= Len(data) THEN Len(data) + i + 1
    ELSE 0

\* A get that gives the default of the '_any' rule for a key no other rule
\* names: what C8_ReadFallsBackToNamedDefault tells from the one below.
get_any_default(self, key) ==
    IF self.t = "ConfigList"
    THEN LET k == fixkey(self, key)
         IN  IF k.t # "int" THEN [err |-> "TypeError", ret |-> NoneV]
             ELSE IF list_index(self.data, k.v) = 0
             THEN [err |-> "", ret |-> self.rules[ANY].default]
             ELSE [err |-> "", ret |-> self.data[list_index(self.data, k.v)]]
    ELSE IF fixkey_fails(self, key) THEN [err |-> "AttributeError", ret |-> NoneV]
    ELSE LET k == fixkey(self, key).v
         IN  IF dict_has(self.data, k) THEN [err |-> "", ret |-> dict_get(self.data, k)]
             ELSE IF k \in DOMAIN self.rules THEN [err |-> "", ret |-> self.rules[k].default]
             ELSE IF ANY \in DOMAIN self.rules
             THEN [err |-> "", ret |-> self.rules[ANY].default]
             ELSE [err |-> "", ret |-> NoneV]

\* _RuledContainer.get(key) and ConfigList.get(key), default None.
get(self, key) ==
    IF self.t = "ConfigList"
    THEN LET k == fixkey(self, key)
         IN  IF k.t # "int" THEN [err |-> "TypeError", ret |-> NoneV]
             ELSE IF list_index(self.data, k.v) = 0 THEN [err |-> "", ret |-> NoneV]
             ELSE [err |-> "", ret |-> self.data[list_index(self.data, k.v)]]
    ELSE IF fixkey_fails(self, key) THEN [err |-> "AttributeError", ret |-> NoneV]
    ELSE LET k == fixkey(self, key).v
         IN  IF dict_has(self.data, k) THEN [err |-> "", ret |-> dict_get(self.data, k)]
             ELSE IF k \in DOMAIN self.rules THEN [err |-> "", ret |-> self.rules[k].default]
             ELSE [err |-> "", ret |-> NoneV]

\* __getitem__: self[key].
getitem(self, key) ==
    IF self.t = "ConfigList"
    THEN LET k == fixkey(self, key)
         IN  IF k.t # "int" THEN [err |-> "TypeError", ret |-> NoneV]
             ELSE IF list_index(self.data, k.v) = 0 THEN [err |-> "IndexError", ret |-> NoneV]
             ELSE [err |-> "", ret |-> self.data[list_index(self.data, k.v)]]
    ELSE IF fixkey_fails(self, key) THEN [err |-> "AttributeError", ret |-> NoneV]
    ELSE LET k == fixkey(self, key).v
         IN  IF k \in DOMAIN self.rules \/ ANY \in DOMAIN self.rules
             THEN get(self, StrV(k))
             ELSE IF dict_has(self.data, k) THEN [err |-> "", ret |-> dict_get(self.data, k)]
             ELSE [err |-> "KeyError", ret |-> NoneV]

\* key_types: the access tags of the rule named by the key as given, else of
\* the '_any' rule, else none.
key_types(self, key) ==
    LET k == IF key \in DOMAIN self.rules THEN key ELSE ANY
    IN  IF k \in DOMAIN self.rules THEN self.rules[k].types ELSE {}

\* --------------------------------------------------------------- coercions
\* repr(v) and str(v) of plain values.
RECURSIVE py_repr(_)
RECURSIVE repr_entries(_)
RECURSIVE repr_items(_)
repr_entries(es) ==
    IF es = << >> THEN << >>
    ELSE py_repr(StrV(es[1].k)) \o << ":", " " >> \o py_repr(es[1].v)
         \o (IF Len(es) > 1 THEN << ",", " " >> \o repr_entries(Tail(es)) ELSE << >>)
repr_items(xs) ==
    IF xs = << >> THEN << >>
    ELSE py_repr(xs[1])
         \o (IF Len(xs) > 1 THEN << ",", " " >> \o repr_items(Tail(xs)) ELSE << >>)
py_repr(v) ==
    CASE v.t = "none" -> << "N", "o", "n", "e" >>
      [] v.t = "int" -> int_str(v.v)
      [] v.t = "str" -> << "'" >> \o v.v \o << "'" >>
      [] v.t = "map" -> << "{" >> \o repr_entries(v.v) \o << "}" >>
      [] v.t = "list" -> << "[" >> \o repr_items(v.v) \o << "]" >>
py_str(v) == IF v.t = "str" THEN v.v ELSE py_repr(v)

\* int(v): an int as it is, a decimal text parsed (ValueError otherwise),
\* anything else a TypeError.
py_int(v) ==
    CASE v.t = "int" -> [err |-> "", ret |-> v]
      [] v.t = "str" -> IF is_int(v.v, 10)
                        THEN [err |-> "", ret |-> IntV(to_int(v.v, 10))]
                        ELSE [err |-> "ValueError", ret |-> NoneV]
      [] OTHER -> [err |-> "TypeError", ret |-> NoneV]

\* ------------------------------------------------------------------ writes
with_ww(r, ww) == [r EXCEPT !.ww = @ \cup ww]

\* F applied to the result of a call: the result is computed once and named
\* by F's parameter.
With(v, F(_)) == F(v)

\* The operations below call one another in a cycle (a write builds
\* containers, building a container writes).  Every such call goes through
\* call(fn, args), defined after them.
RECURSIVE call(_, _)
RECURSIVE reset_from(_, _, _, _, _)
RECURSIVE add_rules_from(_, _, _)
RECURSIVE update_entries(_, _, _)
RECURSIVE update_pairs(_, _, _)
RECURSIVE list_update_set(_, _, _, _)
RECURSIVE list_extend_from(_, _, _)
RECURSIVE merge_from(_, _, _, _)
RECURSIVE pad(_, _)

\* reset(rules, data).  ConfigList: only the rules are dropped.  ConfigDict:
\* the rules are dropped and, with data, the keys are walked in order: a
\* nested container is reset in place, a plain value is deleted, which
\* makes the next step of the iteration over self.keys() raise
\* RuntimeError (the dict changed size during iteration).
reset(self, rules, data) ==
    LET s1 == IF rules THEN [self EXCEPT !.rules = << >>] ELSE self
    IN  IF self.t = "ConfigList" \/ ~data
        THEN Ok(s1, NoneV, {})
        ELSE reset_from(s1, dict_keys(s1.data), 1, rules, data)
reset_from(self, keys, i, rules, data) ==
    IF i > Len(keys) THEN Ok(self, NoneV, {})
    ELSE IF is_container(dict_get(self.data, keys[i]))
    THEN With(call("reset", << dict_get(self.data, keys[i]), rules, data >>), LAMBDA r :
            IF r.err # ""
            THEN Raise([self EXCEPT !.data = dict_set(@, keys[i], r.self)], r.err, {})
            ELSE reset_from([self EXCEPT !.data = dict_set(@, keys[i], r.self)],
                            keys, i + 1, rules, data))
    ELSE Raise([self EXCEPT !.data = dict_del(@, keys[i])], "RuntimeError", {})

\* add_rule(key, rule): the rule is installed; a locked rule whose default
\* is a dict of rules gets a ConfigDict built from that dict, an empty dict
\* default a keyed collection and an empty list default an ordered one,
\* both governed by one '_any' rule made of the rule's comment and checker.
add_rule(self, key, rule) ==
    LET check == rule.checker
        name == path_join(self.name, key)
        comment == rule.comment
        value == rule.default
        ww == self.ww
        s1 == [self EXCEPT !.rules = rules_set(@, key, rule)]
        sub_rule == << [k |-> ANY, v |-> ConfigRule(rule.comment, rule.checker, NoneV)] >>
        installed(c, checker) ==
            IF c.err # "" THEN Raise(s1, c.err, c.ww)
            ELSE Ok([s1 EXCEPT !.data = dict_set(@, key, c.self),
                               !.rules[key].checker = checker], NoneV, c.ww)
        made(checker) ==
            With(call("construct", << checker.pcls, checker.NAME, checker.COMMENT,
                                      checker.RULES, checker.WWATCHER, << >> >>),
                 LAMBDA c : installed(c, checker))
    IN  IF check.t = "rules" /\ value.t \notin {"none", "map", "ruledict", "list"}
        THEN Raise(s1, "TypeError", {})
        ELSE IF value.t \in {"map", "ruledict"} /\ check.t = "False"
        THEN With(call("construct", << "ConfigDict", name, comment, value.v, ww, << >> >>),
                  LAMBDA c : installed(c, check))
        ELSE IF value.t \in {"map", "ruledict"}
        THEN IF value.v # << >> THEN Raise(s1, "ConfigValueError", {})
             ELSE made(_MakeCheck("ConfigDict", name, check, sub_rule, ww))
        ELSE IF value.t = "list"
        THEN IF value.v # << >> THEN Raise(s1, "ConfigValueError", {})
             ELSE made(_MakeCheck("ConfigList", name, comment, sub_rule, ww))
        ELSE IF value.t \notin {"none", "int", "str"}
        THEN Raise(s1, "TypeError", {})
        ELSE Ok(s1, NoneV, {})

\* for key, rule in rules.items(): self.add_rule(key, rule)
add_rules_from(self, rules, i) ==
    IF i > Len(rules) THEN Ok(self, NoneV, {})
    ELSE With(add_rule(self, rules[i].k, rules[i].v), LAMBDA r :
            IF r.err # "" THEN r ELSE add_rules_from(r.self, rules, i + 1))

\* for key, val in src: one element unpacked into a pair.
unpack_pair(e) ==
    LET two(xs) == IF Len(xs) = 2
                   THEN [err |-> "", k |-> xs[1], v |-> xs[2]]
                   ELSE [err |-> "ValueError", k |-> NoneV, v |-> NoneV]
    IN  CASE e.t = "list" -> two(e.v)
          [] e.t = "ConfigList" -> two(e.data)
          [] e.t = "str" -> two([ i \in DOMAIN e.v |-> StrV(<< e.v[i] >>) ])
          [] e.t \in {"map", "ConfigDict"} ->
                two([ i \in DOMAIN entries_of(e) |-> StrV(entries_of(e)[i].k) ])
          [] OTHER -> [err |-> "TypeError", k |-> NoneV, v |-> NoneV]

\* list(src)
as_list(src) ==
    CASE src.t = "list" -> [err |-> "", ret |-> src.v]
      [] src.t = "ConfigList" -> [err |-> "", ret |-> src.data]
      [] src.t = "str" -> [err |-> "", ret |-> [ i \in DOMAIN src.v |-> StrV(<< src.v[i] >>) ]]
      [] src.t \in {"map", "ConfigDict"} ->
            [err |-> "", ret |-> [ i \in DOMAIN entries_of(src) |-> StrV(entries_of(src)[i].k) ]]
      [] OTHER -> [err |-> "TypeError", ret |-> << >>]

\* update(src).  ConfigDict: every key of a dict-like src, or every pair of
\* an iterable, is set through __setitem__.  ConfigList: the positions that
\* exist are set, the rest appended.
update(self, src) ==
    IF self.t = "ConfigDict" /\ src.t \in {"map", "ConfigDict"}
    THEN update_entries(self, entries_of(src), 1)
    ELSE With(as_list(src), LAMBDA l :
            IF l.err # "" THEN Raise(self, l.err, {})
            ELSE IF self.t = "ConfigDict" THEN update_pairs(self, l.ret, 1)
            ELSE With(list_update_set(self, l.ret, 0, Len(self.data)), LAMBDA r :
                    IF r.err # "" THEN r
                    ELSE with_ww(list_extend_from(r.self, l.ret, Len(r.self.data) + 1),
                                 r.ww)))
update_entries(self, es, i) ==
    IF i > Len(es) THEN Ok(self, NoneV, {})
    ELSE With(call("setitem", << self, StrV(es[i].k), es[i].v >>), LAMBDA r :
            IF r.err # "" THEN r
            ELSE with_ww(update_entries(r.self, es, i + 1), r.ww))
update_pairs(self, l, i) ==
    IF i > Len(l) THEN Ok(self, NoneV, {})
    ELSE With(unpack_pair(l[i]), LAMBDA p :
            IF p.err # "" THEN Raise(self, p.err, {})
            ELSE With(call("setitem", << self, p.k, p.v >>), LAMBDA r :
                    IF r.err # "" THEN r
                    ELSE with_ww(update_pairs(r.self, l, i + 1), r.ww)))
list_update_set(self, l, i, n) ==
    IF i >= n THEN Ok(self, NoneV, {})
    ELSE IF i >= Len(l) THEN Raise(self, "IndexError", {})
    ELSE With(call("setitem", << self, IntV(i), l[i + 1] >>), LAMBDA r :
            IF r.err # "" THEN r
            ELSE with_ww(list_update_set(r.self, l, i + 1, n), r.ww))
list_extend_from(self, l, i) ==
    IF i > Len(l) THEN Ok(self, NoneV, {})
    ELSE With(call("append", << self, l[i] >>), LAMBDA r :
            IF r.err # "" THEN r
            ELSE with_ww(list_extend_from(r.self, l, i + 1), r.ww))

\* __init__ of a container class: name, comment and write watcher from the
\* keyword arguments or the class, set_rules(rules) (reset, then add_rule
\* for every rule), then update(*args).
construct(pcls, name, comment, rules, write_watcher, args) ==
    With(reset(new_container(pcls, name, comment, write_watcher), TRUE, TRUE), LAMBDA r0 :
    With(IF r0.err # "" THEN r0 ELSE add_rules_from(r0.self, rules, 1), LAMBDA r1 :
        IF r1.err # "" \/ args = << >> THEN r1
        ELSE with_ww(update(r1.self, args[1]), r1.ww)))

\* __passkey__(key, value): a container value learns its key and its name
\* (a ConfigList gives the position in lower-case base 36).
passkey(self, key, value) ==
    IF ~is_container(value) THEN [err |-> "", value |-> value]
    ELSE IF self.t = "ConfigList"
    THEN IF key.t # "int" THEN [err |-> "TypeError", value |-> value]
         ELSE LET k == lower(b36(key.v))
              IN  [err |-> "",
                   value |-> [value EXCEPT !.key = k, !.name = path_join(self.name, k)]]
    ELSE [err |-> "",
          value |-> [value EXCEPT !.key = key.v, !.name = path_join(self.name, key.v)]]

\* __passkey_recurse__(key, value): the children of a container value
\* learn their keys and names from it (one level).
passkey_recurse(value) ==
    IF ~is_container(value) THEN value
    ELSE IF value.t = "ConfigList"
    THEN [value EXCEPT !.data =
            [ i \in DOMAIN @ |-> passkey(value, fixkey(value, IntV(i - 1)), @[i]).value ]]
    ELSE [value EXCEPT !.data =
            [ i \in DOMAIN @ |->
                [k |-> @[i].k,
                 v |-> passkey(value, fixkey(value, StrV(@[i].k)), @[i].v).value] ]]

\* The container with the object held under a key replaced by its new state
\* (objects are mutated in place; this writes the mutation back).
put(self, key, obj) ==
    IF self.t = "ConfigList"
    THEN [self EXCEPT !.data[list_index(self.data, key.v)] = obj]
    ELSE [self EXCEPT !.data = dict_set(@, key.v, obj)]

\* The checker applied to the value (lines 399-426 of __setitem__).  kind is
\* "store" (go on with the coerced value), "return" (the write ended: a
\* merge into the locked sub-dict, or IgnoreValue) or "raise".
check_value(self, key, checker, value) ==
    LET store(v, ww) == [kind |-> "store", self |-> self, value |-> v, err |-> "", ww |-> ww]
        raise(e, ww) == [kind |-> "raise", self |-> self, value |-> value, err |-> e, ww |-> ww]
        return(s, ww) == [kind |-> "return", self |-> s, value |-> value, err |-> "", ww |-> ww]
    IN  CASE checker.t = "True" -> store(value, {})
          [] checker.t = "False" ->
                IF ~is_dict(value) THEN raise("ConfigValueError", {})
                ELSE With(getitem(self, key), LAMBDA cur :
                        IF cur.err # "" THEN raise(cur.err, {})
                        ELSE IF ~is_dict(cur.ret) THEN raise("ConfigValueError", {})
                        ELSE With(merge_from(self, key, entries_of(value), 1), LAMBDA m :
                                IF m.err # ""
                                THEN [kind |-> "raise", self |-> m.self, value |-> value,
                                      err |-> m.err, ww |-> m.ww]
                                ELSE return(m.self, m.ww)))
          [] checker.t = "enum" ->
                IF \E i \in DOMAIN checker.vals : checker.vals[i] = value
                THEN store(value, {})
                ELSE raise("ConfigValueError", {})
          [] checker.t = "type" /\ checker.fn = "int" ->
                IF value.t = "none" THEN store(IntV(0), {})
                ELSE With(py_int(value), LAMBDA c :
                        IF c.err # "" THEN raise("ValueError", {}) ELSE store(c.ret, {}))
          [] checker.t = "type" /\ checker.fn = "str" ->
                IF value.t = "none" THEN store(StrV(<< >>), {})
                ELSE store(StrV(py_str(value)), {})
          [] checker.t = "type" /\ checker.fn = "IgnoreCheck" -> return(self, {})
          [] checker.t = "Checker" ->
                With(call("construct", << checker.pcls, checker.NAME, checker.COMMENT,
                                          checker.RULES, checker.WWATCHER,
                                          IF value.t = "none" THEN << >> ELSE << value >> >>),
                     LAMBDA c :
                        IF c.err = "" THEN store(c.self, c.ww)
                        ELSE IF c.err \in {"ValueError", "TypeError", "InvalidKeyError"}
                        THEN raise("ValueError", c.ww)
                        ELSE raise(c.err, c.ww))
          [] OTHER -> raise("Exception", {})

\* A merge that empties the sub-container before it sets an entry: what
\* C3_LockedKeyMerges tells from the one below.
merge_replacing(self, key, es, i) ==
    IF i > Len(es) THEN Ok(self, NoneV, {})
    ELSE With(call("setitem", << [getitem(self, key).ret EXCEPT !.data = << >>],
                                 StrV(es[i].k), es[i].v >>),
              LAMBDA r :
                IF r.err # "" THEN Raise(put(self, key, r.self), r.err, r.ww)
                ELSE with_ww(merge_from(put(self, key, r.self), key, es, i + 1), r.ww))

\* for k, v in value.items(): self[key][k] = v
merge_from(self, key, es, i) ==
    IF i > Len(es) THEN Ok(self, NoneV, {})
    ELSE With(call("setitem", << getitem(self, key).ret, StrV(es[i].k), es[i].v >>),
              LAMBDA r :
                IF r.err # "" THEN Raise(put(self, key, r.self), r.err, r.ww)
                ELSE with_ww(merge_from(put(self, key, r.self), key, es, i + 1), r.ww))

\* __createkey_and_setitem__ followed by __passkey_recurse__ on the value
\* stored.  ConfigDict: the entry is set.  ConfigList: the positions up to
\* the key are appended with the '_any' default, then the value is
\* appended (key = len) or put in place.
createkey_and_setitem(self, key, value) ==
    IF self.t = "ConfigDict"
    THEN Ok([self EXCEPT !.data = dict_set(@, key.v, passkey_recurse(value))], NoneV, {})
    ELSE IF key.t # "int" THEN Raise(self, "TypeError", {})
    ELSE With(pad(self, key.v), LAMBDA p :
            IF p.err # "" THEN p
            ELSE IF key.v = Len(p.self.data)
            THEN With(call("append", << p.self, value >>), LAMBDA a :
                    IF a.err # "" THEN with_ww(a, p.ww)
                    ELSE Ok(a.self, NoneV, a.ww \cup p.ww))
            ELSE IF list_index(p.self.data, key.v) = 0
            THEN Raise(p.self, "IndexError", p.ww)
            ELSE Ok([p.self EXCEPT !.data[list_index(p.self.data, key.v)] =
                                      passkey_recurse(value)], NoneV, p.ww))

\* while key > len(self): self.append(self.rules['_any'][RULE_DEFAULT])
pad(self, key) ==
    IF key > Len(self.data)
    THEN With(call("append", << self, self.rules[ANY].default >>), LAMBDA a :
            IF a.err # "" THEN a ELSE with_ww(pad(a.self, key), a.ww))
    ELSE Ok(self, NoneV, {})

\* __setitem__(key, value)
setitem(self, key, value) ==
    IF fixkey_fails(self, key) THEN Raise(self, "AttributeError", {})
    ELSE
    With(fixkey(self, key), LAMBDA k :
    With(get_rule(self, k), LAMBDA gr :
        IF gr.err # "" THEN Raise(self, gr.err, {})
        ELSE
        With(check_value(self, k, gr.rule.checker, value), LAMBDA co :
            IF co.kind = "raise" THEN Raise(co.self, co.err, co.ww)
            ELSE IF co.kind = "return" THEN Ok(co.self, NoneV, co.ww)
            ELSE
            With(passkey(self, k, co.value), LAMBDA pk :
                IF pk.err # "" THEN Raise(self, pk.err, co.ww \cup {self.ww})
                ELSE with_ww(createkey_and_setitem(self, k, pk.value),
                             co.ww \cup {self.ww})))))

\* self[len(self) - 1:] = []  in the except clause of append: the slice
\* assignment is a call of __setitem__ with a slice as the key.
rollback(self) == call("setitem", << self, SliceV(Len(self.data) - 1), ListV(<< >>) >>)

\* ConfigList.append(value): a None placeholder is appended and the value
\* set at its position; if that raises, the placeholder is rolled back and
\* the exception raised again.  Returns the position in lower-case base 36.
ConfigList_append(self, value) ==
    With(call("setitem", << [self EXCEPT !.data = Append(@, NoneV)],
                            IntV(Len(self.data)), value >>), LAMBDA r :
        IF r.err = ""
        THEN Ok(r.self, StrV(lower(b36(Len(r.self.data) - 1))), r.ww)
        ELSE With(rollback(r.self), LAMBDA rb :
                IF rb.err # "" THEN Raise(rb.self, rb.err, r.ww \cup rb.ww)
                ELSE Raise(rb.self, r.err, r.ww \cup rb.ww)))

\* ConfigDict.append(value): the value is set under the next free base-36
\* key of a dict that has an '_any' rule.
ConfigDict_append(self, value) ==
    IF ANY \notin DOMAIN self.rules THEN Raise(self, "UsageError", {})
    ELSE IF \E i \in DOMAIN self.data : ~is_int(self.data[i].k, 36)
    THEN Raise(self, "ValueError", {})
    ELSE LET nums == { to_int(self.data[i].k, 36) : i \in DOMAIN self.data } \cup {-1}
             top == CHOOSE n \in nums : \A m \in nums : m <= n
         IN  With(lower(b36(top + 1)), LAMBDA k :
             With(call("setitem", << self, StrV(k), value >>), LAMBDA r :
                IF r.err # "" THEN r ELSE Ok(r.self, StrV(k), r.ww)))

\* The call of one of the operations above from inside another.
call(fn, args) ==
    CASE fn = "setitem" -> setitem(args[1], args[2], args[3])
      [] fn = "append" -> ConfigList_append(args[1], args[2])
      [] fn = "reset" -> reset(args[1], args[2], args[3])
      [] fn = "construct" ->
            construct(args[1], args[2], args[3], args[4], args[5], args[6])

\* The root: ConfigDict(_rules=CONFIG_RULES), named 'config' after
\* ConfigDict._NAME, its default write watcher bound to itself.
Root == call("construct", << "ConfigDict", K_config, NoneV, CONFIG_RULES, K_config, << >> >>).self

\* -------------------------------------------------------------------- tree
\* The containers of a tree are reached from the root by the keys they are
\* stored under: a path is a sequence of fixed keys (texts in a ConfigDict,
\* positions in a ConfigList).
RECURSIVE containers(_)
containers(c) ==
    {<< >>} \cup
    UNION { IF c.t = "ConfigList"
            THEN IF is_container(c.data[i])
                 THEN { << IntV(i - 1) >> \o p : p \in containers(c.data[i]) }
                 ELSE {}
            ELSE IF is_container(c.data[i].v)
                 THEN { << StrV(c.data[i].k) >> \o p : p \in containers(c.data[i].v) }
                 ELSE {}
          : i \in DOMAIN c.data }

RECURSIVE at(_, _)
at(c, path) ==
    IF path = << >> THEN c
    ELSE at(IF c.t = "ConfigList" THEN c.data[path[1].v + 1] ELSE dict_get(c.data, path[1].v),
            Tail(path))

RECURSIVE replace_at(_, _, _)
replace_at(c, path, new) ==
    IF path = << >> THEN new
    ELSE put(c, path[1], replace_at(at(c, << path[1] >>), Tail(path), new))

\* _default_write_watcher(self, *args): self._changed = True, self being
\* the container the watcher is bound to: the one that was constructed
\* without a _write_watcher of its own, the root.
_default_write_watcher(self) == [self EXCEPT !.changed = TRUE]

\* The tree after the write watchers called during an operation have run.
watched(root, ww) == IF root.ww \in ww THEN _default_write_watcher(root) ELSE root

\* ------------------------------------------------------------------ export
\* The characters of the texts, in code order.
Ascii == << " ", "'", "(", ")", ",", "-", ".", "/" >> \o DecDigits
         \o << ":", ";", "<", ">" >> \o [ i \in DOMAIN LowerCase |-> upper_char(LowerCase[i]) ]
         \o << "[", "]", "_" >> \o LowerCase \o << "{", "}" >>
char_code(c) == CHOOSE i \in DOMAIN Ascii : Ascii[i] = c
\* a < b for two str.
text_lt(a, b) ==
    \E i \in 1..(Len(a) + 1) :
        /\ i <= Len(b)
        /\ \A j \in 1..(i - 1) : a[j] = b[j]
        /\ i <= Len(a) => char_code(a[i]) < char_code(b[i])
\* sorted(set(keys))
RECURSIVE sorted(_)
sorted(S) ==
    IF S = {} THEN << >>
    ELSE With(CHOOSE x \in S : \A y \in S \ {x} : text_lt(x, y),
              LAMBDA m : << m >> \o sorted(S \ {m}))

\* fmt_key: a ConfigDict lowers the key; a ConfigList gives the position in
\* lower-case base 36, at least four characters wide.
fmt_key(self, key) ==
    IF self.t = "ConfigDict"
    THEN IF key.t = "str" THEN [err |-> "", ret |-> lower(key.v)]
         ELSE [err |-> "AttributeError", ret |-> << >>]
    ELSE With(fixkey(self, key), LAMBDA k :
            IF k.t # "int" THEN [err |-> "TypeError", ret |-> << >>]
            ELSE With(lower(b36(k.v)), LAMBDA f :
                    [err |-> "",
                     ret |-> IF Len(f) < 4
                             THEN SubSeq(<< "0", "0", "0", "0" >> \o f, Len(f) + 1, Len(f) + 4)
                             ELSE f]))
\* keys(): the stored keys of a ConfigDict, the formatted positions of a
\* ConfigList.
keys(self) ==
    IF self.t = "ConfigDict" THEN dict_keys(self.data)
    ELSE [ i \in DOMAIN self.data |-> fmt_key(self, IntV(i - 1)).ret ]
\* ignored_keys(): the keys whose checker is IgnoreCheck.
ignored_keys(self) ==
    { k \in DOMAIN self.rules : self.rules[k].checker = CType("IgnoreCheck") }

\* '%s' % comment, for the comment of a section header: a text as it is,
\* anything else by its repr.
RECURSIVE repr_rules(_)
type_name(fn) ==
    CASE fn = "int" -> << "i", "n", "t" >>
      [] fn = "str" -> << "s", "t", "r" >>
      [] OTHER -> << "I", "g", "n", "o", "r", "e", "C", "h", "e", "c", "k" >>
repr_checker(ch) ==
    CASE ch.t = "type" -> << "<", "c", "l", "a", "s", "s", " ", "'" >>
                          \o type_name(ch.fn) \o << "'", ">" >>
      [] ch.t = "enum" -> << "(" >> \o repr_items(ch.vals) \o << ")" >>
      [] ch.t = "True" -> << "T", "r", "u", "e" >>
      [] ch.t = "False" -> << "F", "a", "l", "s", "e" >>
      [] ch.t = "rules" -> << "{" >> \o repr_rules(ch.rules) \o << "}" >>
      [] OTHER -> << "<", "c", "l", "a", "s", "s", ">" >>
repr_rules(rs) ==
    IF rs = << >> THEN << >>
    ELSE py_repr(StrV(rs[1].k)) \o << ":", " ", "[" >>
         \o py_repr(rs[1].v.comment) \o << ",", " " >>
         \o repr_checker(rs[1].v.checker) \o << ",", " " >>
         \o py_repr(rs[1].v.default) \o << "]" >>
         \o (IF Len(rs) > 1 THEN << ",", " " >> \o repr_rules(Tail(rs)) ELSE << >>)
truthy(v) ==
    CASE v.t = "none" -> FALSE
      [] v.t = "str" -> v.v # << >>
      [] v.t = "int" -> v.v # 0
      [] v.t = "False" -> FALSE
      [] v.t = "rules" -> v.rules # << >>
      [] v.t = "enum" -> v.vals # << >>
      [] OTHER -> TRUE
fmt_comment(v) == IF v.t \in {"none", "int", "str", "map", "list"} THEN py_str(v)
                  ELSE repr_checker(v)

\* The ConfigParser the export fills: its sections in the order they were
\* added, each with the (key, value, comment) triples set in it.
add_section(config, section) ==
    IF \E i \in DOMAIN config : config[i].name = section
    THEN [err |-> "DuplicateSectionError", config |-> config]
    ELSE [err |-> "", config |-> Append(config, [name |-> section, items |-> << >>])]
config_set(config, section, key, value, comment) ==
    [ i \in DOMAIN config |->
        IF config[i].name # section THEN config[i]
        ELSE [config[i] EXCEPT !.items =
                SelectSeq(@, LAMBDA it : it.k # key)
                \o << [k |-> key, v |-> value, comment |-> comment] >>] ]

\* as_config(config, _type, _xtype).  The keys are those of the rules (those
\* tagged _type, if given) and, without _type, for a container with no rule
\* or an '_any' rule, the stored keys too (keys() taken as a list, as the
\* call of extend requires); sorted, without the ignored keys and '_any'.
\* First the plain values, each under the section of this container, added
\* when its first value is met: None and '' are skipped, a key that is not
\* stored is written as ';key' with a '(default) ' comment, a key tagged
\* _xtype is not written.  Then the containers, each into its own section.
RECURSIVE as_config(_, _, _, _)
RECURSIVE emit_values(_, _, _, _, _, _, _)
RECURSIVE emit_containers(_, _, _, _, _, _)
as_config_keys(self, type_) ==
    LET picked == IF type_ # "" THEN { k \in DOMAIN self.rules : type_ \in key_types(self, k) }
                  ELSE DOMAIN self.rules
        stored == IF type_ = "" /\ (picked = {} \/ ANY \in picked)
                  THEN Range(keys(self)) ELSE {}
    IN  sorted((picked \cup stored) \ (ignored_keys(self) \cup {ANY}))
emit_values(self, ks, i, section, added, config, xtype) ==
    IF i > Len(ks) THEN [err |-> "", config |-> config]
    ELSE With(getitem(self, StrV(ks[i])), LAMBDA g :
        IF g.err # "" THEN [err |-> g.err, config |-> config]
        ELSE IF \/ is_container(g.ret)
                \/ g.ret.t = "none"
                \/ g.ret.t = "str" /\ g.ret.v = << >>
        THEN emit_values(self, ks, i + 1, section, added, config, xtype)
        ELSE
        LET is_set == ks[i] \in Range(keys(self))
            key == IF is_set THEN ks[i] ELSE << ";" >> \o ks[i]
            rule_comment == IF ks[i] \in DOMAIN self.rules THEN self.rules[ks[i]].comment
                            ELSE StrV(<< >>)
            comment == IF is_set THEN rule_comment
                       ELSE StrV(<< "(", "d", "e", "f", "a", "u", "l", "t", ")", " " >>
                                 \o rule_comment.v)
        IN  IF ~is_set /\ rule_comment.t # "str" THEN [err |-> "TypeError", config |-> config]
            ELSE With(IF added THEN [err |-> "", config |-> config]
                      ELSE add_section(config, section), LAMBDA c1 :
                IF c1.err # "" THEN c1
                ELSE emit_values(self, ks, i + 1, section, TRUE,
                                 IF xtype = "" \/ xtype \notin key_types(self, key)
                                 THEN config_set(c1.config, section, key, g.ret, comment)
                                 ELSE c1.config,
                                 xtype)))
emit_containers(self, ks, i, config, type_, xtype) ==
    IF i > Len(ks) THEN [err |-> "", config |-> config]
    ELSE With(getitem(self, StrV(ks[i])), LAMBDA g :
        IF g.err # "" THEN [err |-> g.err, config |-> config]
        ELSE IF ~is_container(g.ret)
        THEN emit_containers(self, ks, i + 1, config, type_, xtype)
        ELSE With(IF g.ret.t = "ConfigList" THEN as_config(g.ret, config, "", "")
                  ELSE as_config(g.ret, config, type_, xtype), LAMBDA sub :
                IF sub.err # "" THEN sub
                ELSE emit_containers(self, ks, i + 1, sub.config, type_, xtype)))
as_config(self, config, type_, xtype) ==
    LET section == IF truthy(self.comment)
                   THEN self.name \o << ":", " " >> \o fmt_comment(self.comment)
                   ELSE self.name
    IN  With(as_config_keys(self, type_), LAMBDA ks :
        With(emit_values(self, ks, 1, section, FALSE, config, xtype), LAMBDA vals :
            IF vals.err # "" THEN vals
            ELSE emit_containers(self, ks, 1, vals.config, type_, xtype)))

\* ------------------------------------------------------------------- parse
\* What is read back from the text a filled ConfigParser writes: the
\* sections in order, without the ';key' lines, every value as its str.
write_read(config) ==
    [ i \in DOMAIN config |->
        [name |-> config[i].name,
         items |-> LET live == SelectSeq(config[i].items, LAMBDA it : it.k[1] # ";")
                   IN  [ j \in DOMAIN live |-> [k |-> lower(live[j].k),
                                                v |-> py_str(live[j].v)] ]] ]

\* item_sorter: (int(key, 36), value) for a key that is a base-36 number,
\* else the item itself.  items.sort(key=item_sorter): tuples that start
\* with an int and tuples that start with a str do not compare (TypeError).
item_lt(a, b) ==
    IF is_int(a.k, 36)
    THEN \/ to_int(a.k, 36) < to_int(b.k, 36)
         \/ to_int(a.k, 36) = to_int(b.k, 36) /\ text_lt(a.v, b.v)
    ELSE text_lt(a.k, b.k) \/ (a.k = b.k /\ text_lt(a.v, b.v))
RECURSIVE insert_sorted(_, _)
insert_sorted(sorted_items, it) ==
    IF sorted_items = << >> THEN << it >>
    ELSE IF item_lt(it, sorted_items[Len(sorted_items)])
    THEN insert_sorted(SubSeq(sorted_items, 1, Len(sorted_items) - 1), it)
         \o << sorted_items[Len(sorted_items)] >>
    ELSE Append(sorted_items, it)
RECURSIVE sort_from(_, _, _)
sort_from(items, i, acc) ==
    IF i > Len(items) THEN acc ELSE sort_from(items, i + 1, insert_sorted(acc, items[i]))
items_sort(items) ==
    IF \E i, j \in DOMAIN items : is_int(items[i].k, 36) /\ ~is_int(items[j].k, 36)
    THEN [err |-> "TypeError", ret |-> items]
    ELSE [err |-> "", ret |-> sort_from(items, 1, << >>)]

\* The state of a parse: the tree, the exception that escaped, all_okay,
\* the warnings given to the session, the assignments made, the owners
\* whose write watcher was called.
parse_warning(kind, source, section, var, val) ==
    [kind |-> kind, source |-> source, section |-> section, var |-> var, val |-> val]
parse_raise(st, root, err) == [st EXCEPT !.self = root, !.err = err]

\* for part in cfgpath: a part among the keys of cfg is followed; else, under
\* an '_any' rule, cfg[part] = {} is set and followed; else the section is
\* not okay and a warning is given, and the loop goes on with the next part.
\* cfg is a container of the tree (node, by its path) or a plain value.
RECURSIVE resolve(_, _, _, _, _, _, _)
resolve(st, cfg_, parts, i, okay, session, section) ==
    IF i > Len(parts) THEN [st |-> st, cfg |-> cfg_, okay |-> okay]
    ELSE IF ~cfg_.node
    THEN [st |-> parse_raise(st, st.self, "AttributeError"), cfg |-> cfg_, okay |-> okay]
    ELSE
    LET c == at(st.self, cfg_.path)
        part == StrV(parts[i])
        follow(st1, c1) ==
            With(getitem(c1, part), LAMBDA g :
                IF g.err # ""
                THEN [st |-> parse_raise(st1, st1.self, g.err), cfg |-> cfg_, okay |-> okay]
                ELSE resolve(st1,
                             IF is_container(g.ret)
                             THEN [node |-> TRUE, path |-> Append(cfg_.path, fixkey(c1, part))]
                             ELSE [node |-> FALSE, value |-> g.ret],
                             parts, i + 1, okay, session, section))
    IN  With(fmt_key(c, part), LAMBDA f :
            IF f.err # ""
            THEN [st |-> parse_raise(st, st.self, f.err), cfg |-> cfg_, okay |-> okay]
            ELSE IF f.ret \in Range(keys(c)) THEN follow(st, c)
            ELSE IF ANY \in DOMAIN c.rules
            THEN With(call("setitem", << c, part, MapV(<< >>) >>), LAMBDA w :
                    With(watched(replace_at(st.self, cfg_.path, w.self), w.ww), LAMBDA root :
                        IF w.err # ""
                        THEN [st |-> parse_raise(st, root, w.err), cfg |-> cfg_, okay |-> okay]
                        ELSE follow([st EXCEPT !.self = root, !.ww = @ \cup w.ww], w.self)))
            ELSE resolve([st EXCEPT !.all_okay = FALSE,
                                    !.log = IF session
                                            THEN Append(@, parse_warning("section", st.source,
                                                                         section, << >>, << >>))
                                            ELSE @],
                         cfg_, parts, i + 1, FALSE, session, section))

\* for var, val in items: cfg[var] = val, a ValueError, KeyError or
\* IndexError caught and warned about; anything else escapes.
caught(err) ==
    err \in {"ValueError", "ConfigValueError", "InvalidKeyError", "KeyError", "IndexError"}
RECURSIVE assign_items(_, _, _, _, _, _)
assign_items(st, cfg_, items, j, session, section) ==
    IF j > Len(items) THEN st
    ELSE IF ~cfg_.node THEN parse_raise(st, st.self, "TypeError")
    ELSE With(call("setitem", << at(st.self, cfg_.path), StrV(items[j].k), StrV(items[j].v) >>),
              LAMBDA w :
        With(watched(replace_at(st.self, cfg_.path, w.self), w.ww), LAMBDA root :
            IF w.err = ""
            THEN assign_items([st EXCEPT !.self = root, !.ww = @ \cup w.ww,
                                         !.applied = Append(@, << section, items[j].k >>)],
                              cfg_, items, j + 1, session, section)
            ELSE IF caught(w.err)
            THEN assign_items([st EXCEPT !.self = root, !.ww = @ \cup w.ww,
                                         !.all_okay = FALSE,
                                         !.log = IF session
                                                 THEN Append(@, parse_warning("variable",
                                                         st.source, section,
                                                         items[j].k, items[j].v))
                                                 ELSE @],
                              cfg_, items, j + 1, session, section)
            ELSE parse_raise([st EXCEPT !.ww = @ \cup w.ww], root, w.err)))

\* parse_config(session, data, source), data being what the ConfigParser
\* read: for every section, the path after the first part of the name
\* before ':' is resolved, the items (none if the section is not okay) are
\* sorted and assigned.  Returns all_okay.
RECURSIVE parse_sections(_, _, _, _)
parse_sections(st, sections, i, session) ==
    IF i > Len(sections) \/ st.err # "" THEN st
    ELSE
    LET section == sections[i].name
        cfgpath == Tail(split(split(section, ":")[1], "/"))
    IN  With(resolve(st, [node |-> TRUE, path |-> << >>], cfgpath, 1, TRUE, session, section),
             LAMBDA r :
        IF r.st.err # "" THEN r.st
        ELSE With(items_sort(IF r.okay THEN sections[i].items ELSE << >>), LAMBDA items :
                IF items.err # "" THEN parse_raise(r.st, r.st.self, items.err)
                ELSE parse_sections(assign_items(r.st, r.cfg, items.ret, 1, session, section),
                                    sections, i + 1, session)))
parse_config(self, session, data, source) ==
    With(parse_sections([self |-> self, err |-> "", all_okay |-> TRUE, log |-> << >>,
                         applied |-> << >>, ww |-> {}, source |-> source],
                        data, 1, session), LAMBDA st :
        [self |-> st.self, err |-> st.err,
         ret |-> IF st.err = "" THEN st.all_okay ELSE FALSE,
         log |-> st.log, applied |-> st.applied, ww |-> st.ww])

\* ------------------------------------------------------------------ inputs
K_a == << "a" >>
K_evil == << "e", "v" >>
upper(s) == [ i \in DOMAIN s |-> upper_char(s[i]) ]

\* Keys offered to a ConfigDict: the keys its rules name, the first of them
\* in upper case, a key only an '_any' rule can cover and a key nothing in
\* the schema names.
DictKeysFor(c) ==
    LET named == (DOMAIN c.rules) \ {ANY}
    IN  { StrV(k) : k \in named \cup {K_a, K_evil} }
        \cup { StrV(upper(k)) : k \in named \cap {K_pot, K_h2o, K_c} }
\* Keys offered to a ConfigList: positions as ints and as base-36 texts and
\* a text that is no base-36 number; the list of ints is also offered the
\* position MaxIndex, as an int and as its base-36 text.
is_nums(c) == c.key = path_join(K_config, K_nums) \/ c.key = K_nums
ListKeysFor(c) ==
    { IntV(0), IntV(2), StrV(<< "1" >>), StrV(<< "x", "-", "y" >>) }
    \cup (IF is_nums(c) THEN { IntV(MaxIndex), StrV(lower(b36(MaxIndex))) } ELSE {})
KeysFor(c) == IF c.t = "ConfigList" THEN ListKeysFor(c) ELSE DictKeysFor(c)
\* Keys offered to a read: those of a write and, for the list of ints, the
\* decimal text of MaxIndex, which read in base 36 is a position far beyond
\* it.
ReadKeysFor(c) ==
    KeysFor(c) \cup (IF c.t = "ConfigList" /\ is_nums(c)
                     THEN { StrV(int_str(MaxIndex)) } ELSE {})

\* Values offered to a write: None, an int, a decimal text, a text that is no
\* number, the empty text, a legal colour, and plain dicts (empty, a legal
\* record, a legal and an half-legal content of the locked sub-dict).
Values == { NoneV, IntV(1), StrV(<< "7" >>), StrV(<< "m" >>), StrV(<< >>),
            StrV(V_red),
            MapV(<< >>),
            MapV(<< [k |-> K_c, v |-> StrV(<< "5" >>)] >>),
            MapV(<< [k |-> K_h2o, v |-> StrV(<< "3" >>)] >>),
            MapV(<< [k |-> K_h2o, v |-> StrV(<< "3" >>)], [k |-> K_vod, v |-> StrV(<< "m" >>)] >>) }

\* Texts offered to parse_config, as the sections and items read from them.
K_bogus == << "b", "o" >>
K_x_y == << "x", "-", "y" >>
Sec(name, items) == [name |-> name, items |-> items]
Item(k, v) == [k |-> k, v |-> v]
S_config == K_config
S_bogus == path_join(K_config, K_bogus)
S_deeper == path_join(S_bogus, << "d" >>)
S_liq == path_join(K_config, K_liq)
S_nums == path_join(K_config, K_nums)
S_col == path_join(K_config, K_col)
S_rec == path_join(path_join(K_config, K_recs), K_a) \o << ":", " ", "R" >>
ParseTexts ==
    { << Sec(S_config, << Item(K_pot, << "1" >>) >>), Sec(S_bogus, << Item(K_key, << "k" >>) >>) >>,
      << Sec(S_bogus, << Item(K_key, << "k" >>) >>), Sec(S_config, << Item(K_pot, << "1" >>) >>) >>,
      << Sec(S_deeper, << Item(K_key, << "k" >>) >>), Sec(S_config, << Item(K_pot, << "1" >>) >>) >>,
      << Sec(S_config, << Item(K_pot, << "m" >>), Item(K_evil, << "1" >>),
                          Item(K_key, << "k" >>) >>),
         Sec(S_liq, << Item(K_h2o, << "3" >>) >>) >>,
      << Sec(S_nums, << Item(K_x_y, << "1" >>) >>), Sec(S_config, << Item(K_pot, << "1" >>) >>) >>,
      << Sec(S_nums, << Item(<< "2" >>, << "5" >>), Item(<< "0" >>, << "1" >>) >>) >>,
      << Sec(S_rec, << Item(K_c, << "4" >>) >>) >>,
      << Sec(S_config, << Item(K_pot, << "1" >>), Item(K_x_y, << "2" >>) >>) >>,
      << Sec(S_col, << Item(<< "0" >>, << "g" >>) >>), Sec(S_config, << Item(K_pot, << "1" >>) >>) >>,
      << Sec(S_col, << Item(<< "1" >>, V_red) >>) >> }
\* Tags offered to an export as _type and _xtype ('' for none).
ExportTags == { << "", "" >>, << "public", "" >>, << "", "critical" >> }

\* -------------------------------------------------------------------- walk
\* walk(path, parent, key_types): the path is split on '.' if it has one,
\* else on '/'; with parent the last parts are kept back and returned;
\* every part, when key_types is given, is refused if its rule has a tag
\* that is not in key_types, and then looked up with cfg[part].
NoTags == [given |-> FALSE, tags |-> {}]
Tags(ts) == [given |-> TRUE, tags |-> ts]
RECURSIVE walk_from(_, _, _, _)
walk_from(cfg_, parts, i, types) ==
    IF i > Len(parts) THEN [err |-> "", ret |-> cfg_]
    ELSE IF ~is_container(cfg_)
    THEN [err |-> IF types.given THEN "AttributeError"
                  ELSE IF cfg_.t = "map" THEN "KeyError" ELSE "TypeError",
          ret |-> NoneV]
    ELSE IF types.given /\ \E t \in key_types(cfg_, parts[i]) : t \notin types.tags
    THEN [err |-> "AccessError", ret |-> NoneV]
    ELSE With(getitem(cfg_, StrV(parts[i])), LAMBDA g :
            IF g.err # "" THEN g ELSE walk_from(g.ret, parts, i + 1, types))
walk(self, path, parent, types) ==
    LET sep == IF "." \in Range(path) THEN "." ELSE "/"
    IN  With(split(path, sep), LAMBDA path_parts :
        With(IF parent > Len(path_parts) THEN 0 ELSE Len(path_parts) - parent, LAMBDA keep :
        With(walk_from(self, SubSeq(path_parts, 1, keep), 1, types), LAMBDA r :
            IF r.err # "" \/ parent = 0 THEN r
            ELSE [err |-> "",
                  ret |-> [t |-> "tuple", cfg |-> r.ret,
                           vlist |-> SubSeq(path_parts, keep + 1, Len(path_parts))]])))

\* set_rules(rules): reset(), then add_rule for every rule.
set_rules(self, rules) ==
    With(call("reset", << self, TRUE, TRUE >>), LAMBDA r0 :
        IF r0.err # "" THEN r0 ELSE add_rules_from(r0.self, rules, 1))

\* ------------------------------------------------------------------- state
VARIABLES
    cfg,    \* the root ConfigDict and everything below it
    last,   \* the last call: its arguments, what it raised and returned, and the tree before it
    nops,   \* calls made so far
    done    \* the last call left the tree as it was
vars == << cfg, last, nops, done >>

Init ==
    /\ cfg = Root
    /\ last = [op |-> "init", err |-> "", pre |-> Root]
    /\ nops = 0
    /\ done = FALSE

\* One call on the tree.  A call that leaves the tree as it was ends the
\* behaviour: whatever follows it in a longer run follows the same tree
\* without it.
Step(newcfg, record) ==
    /\ ~done
    /\ nops < MaxOps
    /\ cfg' = newcfg
    /\ last' = record
    /\ nops' = nops + 1
    /\ done' = (newcfg = cfg)

\* container[key] = value
SetItem(path, key, value) ==
    With(call("setitem", << at(cfg, path), key, value >>), LAMBDA r :
        Step(watched(replace_at(cfg, path, r.self), r.ww),
             [op |-> "set", path |-> path, key |-> key, value |-> value,
              err |-> r.err, ret |-> r.ret, ww |-> r.ww, pre |-> cfg]))

\* container.append(value)
DoAppend(path, value) ==
    With(IF at(cfg, path).t = "ConfigList" THEN call("append", << at(cfg, path), value >>)
         ELSE ConfigDict_append(at(cfg, path), value), LAMBDA r :
        Step(watched(replace_at(cfg, path, r.self), r.ww),
             [op |-> "append", path |-> path, key |-> NoneV, value |-> value,
              err |-> r.err, ret |-> r.ret, ww |-> r.ww, pre |-> cfg]))

\* container[key]
GetItem(path, key) ==
    With(getitem(at(cfg, path), key), LAMBDA r :
        Step(cfg, [op |-> "getitem", path |-> path, key |-> key, value |-> NoneV,
                   err |-> r.err, ret |-> r.ret, ww |-> {}, pre |-> cfg]))

\* container.get(key)
Get(path, key) ==
    With(get(at(cfg, path), key), LAMBDA r :
        Step(cfg, [op |-> "get", path |-> path, key |-> key, value |-> NoneV,
                   err |-> r.err, ret |-> r.ret, ww |-> {}, pre |-> cfg]))

\* Paths offered to walk, from the root.
WalkPaths ==
    { K_pot, K_key, upper(K_key), K_evil,
      path_join(K_liq, K_vod), K_liq \o << "." >> \o K_vod,
      path_join(K_nums, << "0" >>),
      path_join(path_join(K_tags, << "0" >>), K_c),
      path_join(K_pot, K_c) }
WalkTags == { NoTags, Tags({"public"}), Tags({}) }

\* root.walk(path, parent, key_types)
Walk(path, parent, types) ==
    With(walk(cfg, path, parent, types), LAMBDA r :
        Step(cfg, [op |-> "walk", path |-> path, parent |-> parent, types |-> types,
                   err |-> r.err, ret |-> r.ret, ww |-> {}, pre |-> cfg]))

\* root.reset(rules, data)
Reset(rules, data) ==
    With(call("reset", << cfg, rules, data >>), LAMBDA r :
        Step(r.self, [op |-> "reset", rules |-> rules, data |-> data,
                      err |-> r.err, ret |-> r.ret, ww |-> r.ww, pre |-> cfg]))

\* root.set_rules(CONFIG_RULES): the rules installed again.
SetRules ==
    With(set_rules(cfg, CONFIG_RULES), LAMBDA r :
        Step(watched(r.self, r.ww),
             [op |-> "set_rules", err |-> r.err, ret |-> r.ret, ww |-> r.ww, pre |-> cfg]))

\* root.parse_config(session, data, 't'), data as read by the ConfigParser.
ParseConfig(session, data) ==
    With(parse_config(cfg, session, data, << "t" >>), LAMBDA r :
        Step(r.self, [op |-> "parse", data |-> data, session |-> session,
                      err |-> r.err, ret |-> r.ret, log |-> r.log, applied |-> r.applied,
                      ww |-> r.ww, pre |-> cfg]))

\* root.as_config(_type, _xtype) into a new ConfigParser.
AsConfig(type_, xtype) ==
    With(as_config(cfg, << >>, type_, xtype), LAMBDA r :
        Step(cfg, [op |-> "export", type |-> type_, xtype |-> xtype,
                   err |-> r.err, ret |-> r.config, ww |-> {}, pre |-> cfg]))

\* The text root.as_config() writes, parsed into a new root of the same
\* rules.
RoundTrip ==
    With(as_config(cfg, << >>, "", ""), LAMBDA e :
    With(IF e.err # "" THEN [self |-> Root, err |-> e.err, ret |-> FALSE]
         ELSE parse_config(Root, TRUE, write_read(e.config), << "t" >>), LAMBDA r :
        Step(cfg, [op |-> "roundtrip", exported |-> e.config, err |-> r.err, ret |-> r.ret,
                   parsed |-> r.self, ww |-> {}, pre |-> cfg])))

Next ==
    \/ \E path \in containers(cfg) :
         \E key \in KeysFor(at(cfg, path)), value \in Values : SetItem(path, key, value)
    \/ \E path \in containers(cfg), value \in Values : DoAppend(path, value)
    \/ \E path \in containers(cfg) : \E key \in ReadKeysFor(at(cfg, path)) : GetItem(path, key)
    \/ \E path \in containers(cfg) : \E key \in ReadKeysFor(at(cfg, path)) : Get(path, key)
    \/ \E path \in WalkPaths, parent \in {0, 1}, types \in WalkTags : Walk(path, parent, types)
    \/ \E rules \in BOOLEAN, data \in BOOLEAN : Reset(rules, data)
    \/ SetRules
    \/ \E session \in BOOLEAN, data \in ParseTexts : ParseConfig(session, data)
    \/ \E tags \in ExportTags : AsConfig(tags[1], tags[2])
    \/ RoundTrip

Spec == Init /\ [][Next]_vars

\* -------------------------------------------------------------- properties
\* The value store of a container and of every container below it: what is
\* stored under which key or at which position, without rules, names,
\* comments and flags.
RECURSIVE contents(_)
contents(v) ==
    IF ~is_container(v) THEN v
    ELSE IF v.t = "ConfigList"
    THEN [t |-> "ConfigList", items |-> [ i \in DOMAIN v.data |-> contents(v.data[i]) ]]
    ELSE [t |-> "ConfigDict",
          items |-> { << v.data[i].k, contents(v.data[i].v) >> : i \in DOMAIN v.data }]

\* The last call was made on an ordered container.
on_list == at(last.pre, last.path).t = "ConfigList"

\* C1: an append to an ordered container that fails (the value is one its
\* '_any' rule rejects) leaves the container with the length and the
\* elements it had: no placeholder stays behind.
C1_RejectedAppendLeavesNoPlaceholder ==
    (last.op = "append" /\ on_list /\ last.err # "")
        => contents(at(cfg, last.path)) = contents(at(last.pre, last.path))

\* C2: a set that raises leaves the value store of the container, and of
\* every container below it, as it was before the call.
C2_FailedSetChangesNothing ==
    (last.op = "set" /\ last.err # "")
        => contents(at(cfg, last.path)) = contents(at(last.pre, last.path))

\* A key of a ConfigDict is locked if its rule has the checker False; it
\* holds the sub-container built from the dict default of the rule.
locked(c, key) ==
    /\ c.t = "ConfigDict"
    /\ key.t = "str"
    /\ lower(key.v) \in DOMAIN c.rules
    /\ c.rules[lower(key.v)].checker.t = "False"
    /\ dict_has(c.data, lower(key.v))
    /\ is_dict(dict_get(c.data, lower(key.v)))
\* The keys a plain dict names, as the container they are set in fixes them.
named_keys(value) == { lower(entries_of(value)[i].k) : i \in DOMAIN entries_of(value) }
\* The last call was a set of a locked key.
locked_set == last.op = "set" /\ locked(at(last.pre, last.path), last.key)
sub_before == dict_get(at(last.pre, last.path).data, lower(last.key.v))
sub_after == dict_get(at(cfg, last.path).data, lower(last.key.v))

\* C3: a set of a locked key with a dict merges it, key by key, into the
\* sub-container that is there: the sub-container stays the object it was,
\* the entries the dict does not name keep their values, and (when the set
\* returns) every entry the dict names holds what a set of that entry in
\* the sub-container stores.  A set of a locked key with anything else
\* raises ConfigValueError and changes nothing.
C3_LockedKeyMerges ==
    locked_set =>
        IF is_dict(last.value)
        THEN /\ is_container(sub_after)
             /\ [sub_after EXCEPT !.data = << >>] = [sub_before EXCEPT !.data = << >>]
             /\ \A i \in DOMAIN sub_before.data :
                    sub_before.data[i].k \notin named_keys(last.value)
                        => /\ dict_has(sub_after.data, sub_before.data[i].k)
                           /\ dict_get(sub_after.data, sub_before.data[i].k)
                                = sub_before.data[i].v
             /\ \A i \in DOMAIN sub_after.data :
                    \/ sub_after.data[i].k \in named_keys(last.value)
                    \/ dict_has(sub_before.data, sub_after.data[i].k)
             /\ last.err = "" =>
                    \A i \in DOMAIN entries_of(last.value) :
                        With(call("setitem", << sub_before, StrV(entries_of(last.value)[i].k),
                                                entries_of(last.value)[i].v >>), LAMBDA w :
                            /\ w.err = ""
                            /\ dict_get(sub_after.data, lower(entries_of(last.value)[i].k))
                                 = dict_get(w.self.data, lower(entries_of(last.value)[i].k)))
        ELSE /\ last.err = "ConfigValueError"
             /\ cfg = last.pre
\* A merge that returned, into a sub-container holding an entry the dict
\* does not name, and that stored something.
C3_MergeKeptUnnamedEntry ==
    /\ locked_set
    /\ is_dict(last.value)
    /\ last.err = ""
    /\ \E i \in DOMAIN sub_before.data : sub_before.data[i].k \notin named_keys(last.value)
    /\ sub_after.data # sub_before.data

\* A tree is legal if every plain value stored in it is one its rule
\* accepts as it is: a set of the value under its key returns and leaves the
\* store as it was.
RECURSIVE Legal(_)
Legal(c) ==
    \A i \in DOMAIN c.data :
        LET key == IF c.t = "ConfigList" THEN IntV(i - 1) ELSE StrV(c.data[i].k)
            v == IF c.t = "ConfigList" THEN c.data[i] ELSE c.data[i].v
        IN  IF is_container(v) THEN Legal(v)
            ELSE With(call("setitem", << c, key, v >>), LAMBDA w :
                    w.err = "" /\ w.self.data = c.data)

\* C4: the export of a legal tree, parsed into a new tree of the same rules,
\* gives a tree with the same keys set to the same values at every level.
C4_ExportParseRoundTrip ==
    (last.op = "roundtrip" /\ Legal(cfg))
        => /\ last.err = ""
           /\ contents(last.parsed) = contents(cfg)

\* The path a section name stands for, and whether it resolves in a tree:
\* every part is a stored key that is followed, or a key of a container
\* with an '_any' rule, which creates it.
section_path(name) == Tail(split(split(name, ":")[1], "/"))
RECURSIVE resolvable(_, _, _)
resolvable(c, parts, i) ==
    \/ i > Len(parts)
    \/ /\ is_container(c)
       /\ With(fmt_key(c, StrV(parts[i])), LAMBDA f :
            /\ f.err = ""
            /\ IF f.ret \in Range(keys(c))
               THEN resolvable(getitem(c, StrV(parts[i])).ret, parts, i + 1)
               ELSE ANY \in DOMAIN c.rules)
\* The sections of the text last parsed that do not resolve.
unresolved ==
    { i \in DOMAIN last.data : ~resolvable(last.pre, section_path(last.data[i].name), 1) }
section_warnings(name) ==
    { n \in DOMAIN last.log : last.log[n].kind = "section" /\ last.log[n].section = name }
variable_warnings(name, var) ==
    { n \in DOMAIN last.log : /\ last.log[n].kind = "variable"
                              /\ last.log[n].section = name
                              /\ last.log[n].var = var }

\* C5: a parse of a text with a section that does not resolve returns
\* False, assigns every key of every section that resolves, wherever the
\* section stands, assigns no key of the section that does not, and gives
\* exactly one warning for that section, naming it.
C5_UnresolvedSectionSkipped ==
    (last.op = "parse" /\ last.session /\ unresolved # {}) =>
        /\ last.err = ""
        /\ ~last.ret
        /\ \A i \in DOMAIN last.data :
              IF i \in unresolved
              THEN /\ \A j \in DOMAIN last.data[i].items :
                        << last.data[i].name, last.data[i].items[j].k >>
                            \notin Range(last.applied)
                   /\ Cardinality(section_warnings(last.data[i].name)) = 1
              ELSE \A j \in DOMAIN last.data[i].items :
                        << last.data[i].name, last.data[i].items[j].k >> \in Range(last.applied)

\* C6: a key of a section whose assignment fails is warned about and
\* skipped, the parse going on with the other keys and the later sections;
\* the parse returns True exactly when every section resolved and every
\* assignment succeeded.
C6_FailedKeySkipped ==
    (last.op = "parse" /\ last.session) =>
        /\ last.err = ""
        /\ \A i \in (DOMAIN last.data) \ unresolved :
              \A j \in DOMAIN last.data[i].items :
                  \/ << last.data[i].name, last.data[i].items[j].k >> \in Range(last.applied)
                  \/ variable_warnings(last.data[i].name, last.data[i].items[j].k) # {}
        /\ last.ret <=> (last.log = << >>)

\* The parts of a path that walk traverses, and whether every part that
\* has a rule has one carrying the tag.
walk_parts(path, parent) ==
    With(split(path, IF "." \in Range(path) THEN "." ELSE "/"), LAMBDA parts :
        SubSeq(parts, 1, IF parent > Len(parts) THEN 0 ELSE Len(parts) - parent))
RECURSIVE all_tagged(_, _, _, _)
all_tagged(c, parts, i, tag) ==
    \/ i > Len(parts)
    \/ ~is_container(c)
    \/ With(get_rule(c, StrV(parts[i])), LAMBDA gr :
         \/ gr.err # ""
         \/ /\ tag \in gr.rule.types
            /\ With(getitem(c, StrV(parts[i])), LAMBDA g :
                  g.err # "" \/ all_tagged(g.ret, parts, i + 1, tag)))

\* C7: a walk restricted to the tag 'public' raises AccessError when a part
\* of the path it traverses has a rule without the tag, and returns only
\* when the rule of every part carries it.
C7_WalkNeedsPublicTag ==
    (last.op = "walk" /\ last.types = Tags({"public"})) =>
        /\ ~all_tagged(cfg, walk_parts(last.path, last.parent), 1, "public")
              => last.err = "AccessError"
        /\ last.err = ""
              => all_tagged(cfg, walk_parts(last.path, last.parent), 1, "public")

\* The key of the last read, as the container fixes it; the read is of a
\* key the container has a place for: a text in a ConfigDict, a position
\* (an int or a base-36 text) in a ConfigList.
read_key == fixkey(at(last.pre, last.path), last.key)
is_read ==
    /\ last.op \in {"get", "getitem"}
    /\ IF on_list THEN read_key.t = "int" /\ read_key.v >= 0 ELSE last.key.t = "str"
has_stored(c, k) ==
    IF c.t = "ConfigList" THEN k.v < Len(c.data) ELSE dict_has(c.data, k.v)
the_stored(c, k) ==
    IF c.t = "ConfigList" THEN c.data[k.v + 1] ELSE dict_get(c.data, k.v)
has_named_rule(c, k) == k.t = "str" /\ k.v \in DOMAIN c.rules
returned(v) == last.err = "" /\ last.ret = v

\* C8 as stated: a read returns the stored value; without one, the default
\* of the rule that names the key, else the default of the '_any' rule; with
\* neither rule it raises KeyError.  A read leaves the tree as it was.
C8_ReadFallsBackToRuleDefault ==
    is_read =>
        LET c == at(last.pre, last.path)
        IN  /\ cfg = last.pre
            /\ IF has_stored(c, read_key) THEN returned(the_stored(c, read_key))
               ELSE IF has_named_rule(c, read_key)
               THEN returned(c.rules[read_key.v].default)
               ELSE IF ANY \in DOMAIN c.rules THEN returned(c.rules[ANY].default)
               ELSE last.err = "KeyError"

\* C8: a read returns the stored value; without one, the default of the
\* rule that names the key.  A key only the '_any' rule covers reads as
\* None, whatever the default of that rule, except that container[position]
\* of a ConfigList raises IndexError.  With neither rule container[key]
\* raises KeyError and get(key) returns None.  A read leaves the tree as it
\* was.
C8_ReadFallsBackToNamedDefault ==
    is_read =>
        LET c == at(last.pre, last.path)
        IN  /\ cfg = last.pre
            /\ IF has_stored(c, read_key) THEN returned(the_stored(c, read_key))
               ELSE IF has_named_rule(c, read_key)
               THEN returned(c.rules[read_key.v].default)
               ELSE IF last.op = "get" THEN returned(NoneV)
               ELSE IF on_list THEN last.err = "IndexError"
               ELSE IF ANY \in DOMAIN c.rules THEN returned(NoneV)
               ELSE last.err = "KeyError"
\* container[key] of a key only an '_any' rule with a default covers gave
\* None.
C8_WildcardKeyReadNone ==
    /\ is_read
    /\ last.op = "getitem"
    /\ ~on_list
    /\ ~has_stored(at(last.pre, last.path), read_key)
    /\ ~has_named_rule(at(last.pre, last.path), read_key)
    /\ ANY \in DOMAIN at(last.pre, last.path).rules
    /\ at(last.pre, last.path).rules[ANY].default.t # "none"
    /\ last.err = ""
    /\ last.ret.t = "none"

\* The position a key of a ConfigList stands for: an int, or a text read in
\* base 36.
is_position(key) == key.t = "int" \/ (key.t = "str" /\ is_int(key.v, 36))
position(key) == IF key.t = "int" THEN key.v ELSE to_int(key.v, 36)

\* C9: for every position below the length of a ConfigList, the read by the
\* int and the read by its base-36 text (lower or upper case) return the
\* element there; a set by either form has the outcome of the set by the
\* int, and leaves the length and every other slot as they were.
C9_Base36Addressing ==
    /\ \A p \in containers(cfg) :
          at(cfg, p).t = "ConfigList" =>
              \A i \in 0 .. (Len(at(cfg, p).data) - 1) :
                  /\ getitem(at(cfg, p), IntV(i)) = [err |-> "", ret |-> at(cfg, p).data[i + 1]]
                  /\ getitem(at(cfg, p), StrV(lower(b36(i)))) = getitem(at(cfg, p), IntV(i))
                  /\ getitem(at(cfg, p), StrV(b36(i))) = getitem(at(cfg, p), IntV(i))
                  /\ get(at(cfg, p), StrV(lower(b36(i)))) = get(at(cfg, p), IntV(i))
                  /\ get(at(cfg, p), IntV(i)) = getitem(at(cfg, p), IntV(i))
    /\ (/\ last.op = "set"
        /\ on_list
        /\ is_position(last.key)
        /\ position(last.key) >= 0
        /\ position(last.key) < Len(at(last.pre, last.path).data)) =>
          LET c0 == at(last.pre, last.path)
              c1 == at(cfg, last.path)
              i == position(last.key)
          IN  /\ With(call("setitem", << c0, IntV(i), last.value >>), LAMBDA w :
                    w.err = last.err /\ w.self = c1)
              /\ Len(c1.data) = Len(c0.data)
              /\ \A j \in DOMAIN c0.data : j # i + 1 => c1.data[j] = c0.data[j]
\* A set by the base-36 text of position MaxIndex, a letter, put a new
\* value into that slot.
C9_SetByLetterKey ==
    /\ last.op = "set"
    /\ on_list
    /\ last.key.t = "str"
    /\ last.key.v = lower(b36(MaxIndex))
    /\ last.err = ""
    /\ MaxIndex < Len(at(last.pre, last.path).data)
    /\ at(cfg, last.path).data[MaxIndex + 1] # at(last.pre, last.path).data[MaxIndex + 1]

\* The paths of a container's ancestors and its own.
prefixes(path) == { SubSeq(path, 1, n) : n \in 0 .. Len(path) }

\* C10: after a set or an append that returned, the changed flag of the
\* container written and of every container above it, up to the root, is
\* set; no call clears a flag that is set.
C10_WriteFlagsContainerAndAncestors ==
    /\ (last.op \in {"set", "append"} /\ last.err = "")
          => \A p \in prefixes(last.path) : at(cfg, p).changed
    /\ \A p \in containers(last.pre) \cap containers(cfg) :
          at(last.pre, p).changed => at(cfg, p).changed

\* The checker of a rule signals "ignore" for every value.
ignores(rule) == rule.checker.t = "type" /\ rule.checker.fn = "IgnoreCheck"
\* The last call was a write under a rule whose checker signals "ignore": a
\* set of a key such a rule governs, or an append to a container whose
\* '_any' rule is one.
ignored_write ==
    \/ /\ last.op = "set"
       /\ With(get_rule(at(last.pre, last.path), last.key), LAMBDA gr :
            gr.err = "" /\ ignores(gr.rule))
    \/ /\ last.op = "append"
       /\ ANY \in DOMAIN at(last.pre, last.path).rules
       /\ ignores(at(last.pre, last.path).rules[ANY])

\* C11: a set or an append whose checker signals "ignore" raises nothing
\* and leaves the tree as it was: the value store (keys, length, elements)
\* of every container and the changed flags.
C11_IgnoredWriteChangesNothing ==
    ignored_write => (last.err = "" /\ cfg = last.pre)

\* The key a container is stored under in its parent, as a text: the key
\* of a ConfigDict, the position in lower-case base 36 of a ConfigList.
stored_under(parent, k) == IF parent.t = "ConfigList" THEN lower(b36(k.v)) ELSE k.v
parent_path(p) == SubSeq(p, 1, Len(p) - 1)

\* C12: every container stored in the tree has the key it is stored under
\* in its parent as its key, and the name of its parent, '/' and that key as
\* its name, at every depth.
C12_ContainersKnowKeyAndName ==
    \A p \in containers(cfg) \ {<< >>} :
        /\ at(cfg, p).key = stored_under(at(cfg, parent_path(p)), p[Len(p)])
        /\ at(cfg, p).name = path_join(at(cfg, parent_path(p)).name,
                                       stored_under(at(cfg, parent_path(p)), p[Len(p)]))

\* What the '_any' rule of a ConfigList makes of a value set at a position:
\* the checker's verdict, with the coerced value if it accepts.
coerced(c, k, value) ==
    With(get_rule(c, IntV(k)), LAMBDA gr :
        IF gr.err # "" THEN [kind |-> "raise", err |-> gr.err]
        ELSE check_value(c, IntV(k), gr.rule.checker, value))
\* The last call was a set of a ConfigList at a position at or beyond its
\* length, with a value the '_any' rule accepts.
set_beyond_length ==
    /\ last.op = "set"
    /\ on_list
    /\ is_position(last.key)
    /\ position(last.key) >= Len(at(last.pre, last.path).data)
    /\ coerced(at(last.pre, last.path), position(last.key), last.value).kind = "store"

\* C13: a set of a ConfigList of length n at a position k >= n, with a value
\* the '_any' rule accepts, returns and leaves the list k + 1 long, the
\* positions below n as they were, the positions n .. k - 1 holding the
\* default of the '_any' rule and the position k holding the coerced value.
C13_SetBeyondLengthPads ==
    set_beyond_length =>
        LET c0 == at(last.pre, last.path)
            c1 == at(cfg, last.path)
            n == Len(c0.data)
            k == position(last.key)
        IN  /\ last.err = ""
            /\ Len(c1.data) = k + 1
            /\ \A j \in 1 .. n : c1.data[j] = c0.data[j]
            /\ \A j \in (n + 1) .. k : contents(c1.data[j]) = contents(c0.rules[ANY].default)
            /\ contents(c1.data[k + 1]) = contents(coerced(c0, k, last.value).value)

\* The order of the keys of a section: keys that are base-36 numbers by
\* their value, before the keys that are not, which go by their text.
key_le(x, y) ==
    IF is_int(x, 36) /\ is_int(y, 36) THEN to_int(x, 36) <= to_int(y, 36)
    ELSE IF is_int(x, 36) THEN TRUE
    ELSE IF is_int(y, 36) THEN FALSE
    ELSE ~text_lt(y, x)
keys_in_order(ks) == \A a, b \in DOMAIN ks : a < b => key_le(ks[a], ks[b])
\* The keys assigned by the last parse in a section, in the order of the
\* assignments.
applied_in(name) ==
    With(SelectSeq(last.applied, LAMBDA e : e[1] = name), LAMBDA es :
        [ n \in DOMAIN es |-> es[n][2] ])

\* C14: the items of every section that resolves are sorted, whatever the
\* order of the lines, into the order of their keys (base-36 numbers
\* ascending, then the other keys by their text), and the assignments of
\* the section are made in that order.
C14_SectionKeysAppliedInOrder ==
    last.op = "parse" =>
        \A i \in (DOMAIN last.data) \ unresolved :
            With(items_sort(last.data[i].items), LAMBDA r :
                /\ r.err = ""
                /\ Len(r.ret) = Len(last.data[i].items)
                /\ Range(r.ret) = Range(last.data[i].items)
                /\ keys_in_order([ n \in DOMAIN r.ret |-> r.ret[n].k ])
                /\ keys_in_order(applied_in(last.data[i].name)))

====
